---- MODULE Spec2Model ----
(***************************************************************************)
(* A model of service/hook/endpoint.go: the webhook HTTPHandler, which     *)
(* validates the three path parameters, looks the provider up, calls its   *)
(* Transform, resolves the trigger URL and triggers one build per          *)
(* TriggerAPIParams entry, then writes one JSON response.                  *)
(*                                                                         *)
(* Texts are sequences of string tokens: fmt.Sprintf("... %s", x) is the   *)
(* literal part followed by the formatted argument, so "the message        *)
(* includes X" is "X is a contiguous part of the message".  A Go error is  *)
(* its text; the nil error is the empty sequence.                          *)
(***************************************************************************)
EXTENDS Integers, Sequences, FiniteSets, TLC

\* ------------------------------------------------------------------ bounds
\* The longest TriggerAPIParams list a Provider returns in the model.
MaxTriggers == 3

\* The requests handled concurrently (net/http runs one goroutine per request).
Reqs == {"r1", "r2"}

\* ------------------------------------------------------------- input values
Nil == <<>>

ServiceIDs == {"", "github", "gitlab"}
AppSlugs == {"", "app1", "%zz"}
APITokens == {"", "tok"}

\* Errors a Provider may put in TransformResultModel.Error.
TransformErrors == {<<"Ping event received">>}

\* Errors bitriseapi.TriggerBuild may return.
APIErrors == {<<"status 500">>, <<"timeout">>}

\* The i-th build parameters of a list (opaque to the handler).
TriggerAPIParamsModel(i) == <<"build", i>>

\* The TriggerAPIParams lists of the model: n distinct entries, n = 0..MaxTriggers.
ParamLists == {[i \in 1..n |-> TriggerAPIParamsModel(i)] : n \in 0..MaxTriggers}

\* hookCommon.TransformResultModel, as the handler reads it.
TransformResultModel ==
    [ShouldSkip : BOOLEAN, Error : TransformErrors \cup {Nil}, TriggerAPIParams : ParamLists]

EmptyTransformResult == [ShouldSkip |-> FALSE, Error |-> Nil, TriggerAPIParams |-> <<>>]

\* config.SendRequestToURL (nil or a URL) and config.GetServerEnvMode().
OverrideURL == <<"http://localhost:4000", "/trigger">>
ServerEnvModeProd == "production"
Configs == [SendRequestToURL : {Nil, OverrideURL}, ServerEnvMode : {"development", ServerEnvModeProd}]

\* ------------------------------------------------------------------- state
VARIABLES
    config,               \* the process configuration
    pc,                   \* each request's position in HTTPHandler
    vars,                 \* mux.Vars(r): service-id, app-slug, api-token
    hookTransformResult,  \* the Provider's result
    triggerURL,           \* the resolved trigger URL
    respondWithErrors,    \* the errors collected by the dispatch
    idx,                  \* the number of TriggerAPIParams already submitted
    calls,                \* the downstream calls made, in order
    responses,            \* the responses written to the ResponseWriter
    lookups,              \* the registry lookups done
    transformCalls,       \* the Provider.Transform calls done
    resolverCalls         \* the bitriseapi.BuildTriggerURL calls done

allvars == <<config, pc, vars, hookTransformResult, triggerURL,
             respondWithErrors, idx, calls, responses, lookups, transformCalls,
             resolverCalls>>

\* ------------------------------------------------------------------- texts
\* Whether text part is a contiguous part of text msg.
Includes(msg, part) ==
    \E i \in 0..(Len(msg) - Len(part)) : SubSeq(msg, i + 1, i + Len(part)) = part

\* fmt's %s of an error: its text, or "%!s(<nil>)" for the nil error.
FmtS(err) == IF err = Nil THEN <<"%!s(<nil>)">> ELSE err

Digit(d) ==
    CASE d = 0 -> "0" [] d = 1 -> "1" [] d = 2 -> "2" [] d = 3 -> "3" [] d = 4 -> "4"
      [] d = 5 -> "5" [] d = 6 -> "6" [] d = 7 -> "7" [] d = 8 -> "8" [] d = 9 -> "9"

\* fmt's %d of a non-negative int.
RECURSIVE FmtD(_)
FmtD(n) == IF n < 10 THEN <<Digit(n)>> ELSE FmtD(n \div 10) \o <<Digit(n % 10)>>

\* --------------------------------------------------------------- responses
StatusOK == 200
StatusBadRequest == 400

\* service.RespondWithSuccess(w, SuccessRespModel{Message: msg})
RespondWithSuccess(msg) == [status |-> StatusOK, message |-> msg, errors |-> <<>>]

\* respondWithErrors(w, errs)
RespondWithErrorJSON(errs) == [status |-> StatusBadRequest, message |-> Nil, errors |-> errs]

\* A single-error response sent with the status of an internal server error.
RespondWithSingleErrorStr_serverError(errStr) ==
    [status |-> 500, message |-> Nil, errors |-> <<errStr>>]

\* A single-error response that leaves the error out of the list.
RespondWithSingleErrorStr_dropsError(errStr) == RespondWithErrorJSON(<<>>)

\* respondWithSingleErrorStr(w, errStr)
RespondWithSingleErrorStr(errStr) == RespondWithErrorJSON(<<errStr>>)

\* ------------------------------------------------- the handler's decisions
\* The keys of the map supportedProviders() builds.
supportedProviders == {"github"}

\* A validation without the check of the API token.
ValidateVars_noTokenCheck(serviceID, appSlug, apiToken) ==
    IF serviceID = "" THEN <<"No ", "service-id", " defined">>
    ELSE IF appSlug = "" THEN <<"No ", "App Slug", " parameter defined">>
    ELSE Nil

\* A validation that checks the API token before the app slug.
ValidateVars_tokenBeforeSlug(serviceID, appSlug, apiToken) ==
    IF serviceID = "" THEN <<"No ", "service-id", " defined">>
    ELSE IF apiToken = "" THEN <<"No ", "API Token", " parameter defined">>
    ELSE IF appSlug = "" THEN <<"No ", "App Slug", " parameter defined">>
    ELSE Nil

\* Lines 65-76: the error text of the first missing parameter, or Nil.
ValidateVars(serviceID, appSlug, apiToken) ==
    IF serviceID = "" THEN <<"No ", "service-id", " defined">>
    ELSE IF appSlug = "" THEN <<"No ", "App Slug", " parameter defined">>
    ELSE IF apiToken = "" THEN <<"No ", "API Token", " parameter defined">>
    ELSE Nil

\* A lookup that takes every non-empty service-id as supported.
IsSupported_anyID(serviceID) == serviceID # ""

\* Line 78: isSupported.
IsSupported(serviceID) == serviceID \in supportedProviders

\* Line 80: the error text of a lookup miss.
UnsupportedProviderMessage(serviceID) ==
    <<"Unsupported Webhook Type / Provider: ", serviceID>>

\* A classification that forgets the check of Error.
ClassifyTransformResult_noErrorCheck(res) ==
    IF res.ShouldSkip THEN "Skip" ELSE "Triggers"

\* A classification that checks Error before ShouldSkip.
ClassifyTransformResult_errorFirst(res) ==
    IF res.Error # Nil THEN "Error"
    ELSE IF res.ShouldSkip THEN "Skip"
    ELSE "Triggers"

\* Lines 89-101: what the handler does with a TransformResultModel.
ClassifyTransformResult(res) ==
    IF res.ShouldSkip THEN "Skip"
    ELSE IF res.Error # Nil THEN "Error"
    ELSE "Triggers"

\* Line 91: the message of a skipped webhook.
SkipMessage(res) == <<"Acknowledged, but skipping. Reason: ">> \o FmtS(res.Error)

\* Line 97: the error text of a failed transform.
TransformErrorMessage(res) == <<"Failed to transform the webhook: ">> \o FmtS(res.Error)

\* bitriseapi.BuildTriggerURL(apiRootURL, appSlug): the URL, or an error for an
\* app slug that does not parse as a URL path.
BuildTriggerURL(apiRootURL, appSlug) ==
    IF appSlug = "%zz"
    THEN [url |-> Nil, err |-> <<"BuildTriggerURL: Failed to parse PATH">>]
    ELSE [url |-> <<apiRootURL, "/app/", appSlug, "/build/start.json">>, err |-> Nil]

\* A resolution that derives the URL even when an override URL is configured.
ResolveTriggerURL_ignoreOverride(sendRequestToURL, appSlug) ==
    LET u == BuildTriggerURL("https://www.bitrise.io", appSlug)
    IN [url |-> u.url, err |-> u.err, resolved |-> 1]

\* Lines 104-113: the trigger URL of a request, whether the resolver was called,
\* and the resolver's error.
ResolveTriggerURL(sendRequestToURL, appSlug) ==
    IF sendRequestToURL # Nil
    THEN [url |-> sendRequestToURL, err |-> Nil, resolved |-> 0]
    ELSE LET u == BuildTriggerURL("https://www.bitrise.io", appSlug)
         IN [url |-> u.url, err |-> u.err, resolved |-> 1]

\* Line 109: the error text of a failed URL resolution.
BuildURLErrorMessage(err) == <<"Failed to create Build Trigger URL: ">> \o FmtS(err)

\* A mode that is log-only unless an override URL is configured and the mode is
\* production.
IsOnlyLog_bothRequired(cfg) ==
    ~(cfg.SendRequestToURL # Nil /\ cfg.ServerEnvMode = ServerEnvModeProd)

\* Line 49: isOnlyLog.
IsOnlyLog(cfg) ==
    ~(cfg.SendRequestToURL # Nil \/ cfg.ServerEnvMode = ServerEnvModeProd)

\* Lines 51-55: the error triggerBuild returns for the error err of
\* bitriseapi.TriggerBuild.
TriggerBuildError(err) ==
    IF err # Nil THEN <<"Failed to Trigger the Build: ">> \o FmtS(err) ELSE Nil

\* A dispatch without the branch for an empty list.
DispatchBranch_noEmptyCase(n) == IF n = 1 THEN "Single" ELSE "Loop"

\* Lines 118-127: the branch of the dispatch for buildTriggerCount = n.
DispatchBranch(n) == IF n = 0 THEN "None" ELSE IF n = 1 THEN "Single" ELSE "Loop"

\* Line 119: the synthesized error of a webhook with no event.
NoEventMessage ==
    <<"After processing the webhook we failed to detect any event in it which could be turned into a build.">>

\* The error lists of all the requests of a set, one after the other.
RECURSIVE AllErrors(_)
AllErrors(S) ==
    IF S = {} THEN <<>>
    ELSE LET q == CHOOSE x \in S : TRUE
         IN respondWithErrors[q] \o AllErrors(S \ {q})

\* An error list shared by all the requests (a package-level slice).
CollectError_sharedList(errs, err) ==
    IF err # Nil THEN Append(AllErrors(Reqs), err) ELSE errs

\* An error list that puts the latest error first.
CollectError_prepend(errs, err) == IF err # Nil THEN <<err>> \o errs ELSE errs

\* An error list that keeps only the latest error.
CollectError_keepLast(errs, err) == IF err # Nil THEN <<err>> ELSE errs

\* Lines 123-126 and 129-131: the error list after an attempt that returned err.
CollectError(errs, err) == IF err # Nil THEN Append(errs, err) ELSE errs

\* A loop that stops at the first failed attempt.
LoopContinues_abortOnError(i, n, err) == i < n /\ err = Nil

\* Lines 128-132: whether the loop goes on after the attempt of entry i (of n)
\* returned err.
LoopContinues(i, n, err) == i < n

\* A success message without the singular wording.
SuccessMessage_alwaysPlural(n) == <<"Successfully triggered ">> \o FmtD(n) \o <<" builds.">>

\* Lines 141-146: the success message of buildTriggerCount = n.
SuccessMessage(n) ==
    IF n = 1 THEN <<"Successfully triggered 1 build.">>
    ELSE <<"Successfully triggered ">> \o FmtD(n) \o <<" builds.">>

\* Lines 136-147: the response after the dispatch.
ComposeResponse(errs, n) ==
    IF Len(errs) > 0 THEN RespondWithErrorJSON(errs)
    ELSE RespondWithSuccess(SuccessMessage(n))

\* ----------------------------------------------------------------- actions
Init ==
    /\ config \in Configs
    /\ pc = [r \in Reqs |-> "Idle"]
    /\ vars = [r \in Reqs |-> [serviceID |-> "", appSlug |-> "", apiToken |-> ""]]
    /\ hookTransformResult = [r \in Reqs |-> EmptyTransformResult]
    /\ triggerURL = [r \in Reqs |-> Nil]
    /\ respondWithErrors = [r \in Reqs |-> <<>>]
    /\ idx = [r \in Reqs |-> 0]
    /\ calls = [r \in Reqs |-> <<>>]
    /\ responses = [r \in Reqs |-> <<>>]
    /\ lookups = [r \in Reqs |-> 0]
    /\ transformCalls = [r \in Reqs |-> 0]
    /\ resolverCalls = [r \in Reqs |-> 0]

\* The terminal position of a request whose dispatch ended with response resp.
DispatchEnd(resp) == IF resp.status = StatusOK THEN "Success" ELSE "Failure"

\* Lines 59-63: the router hands the request and its path variables to the handler.
Receive(r) ==
    /\ pc[r] = "Idle"
    /\ \E s \in ServiceIDs, a \in AppSlugs, t \in APITokens :
         vars' = [vars EXCEPT ![r] = [serviceID |-> s, appSlug |-> a, apiToken |-> t]]
    /\ pc' = [pc EXCEPT ![r] = "Received"]
    /\ UNCHANGED <<config, hookTransformResult, triggerURL, respondWithErrors, idx,
                   calls, responses, lookups, transformCalls, resolverCalls>>

\* Lines 65-76: the presence checks of the three parameters.
Validate(r) ==
    /\ pc[r] = "Received"
    /\ LET e == ValidateVars(vars[r].serviceID, vars[r].appSlug, vars[r].apiToken)
       IN IF e # Nil
          THEN /\ responses' = [responses EXCEPT ![r] = Append(@, RespondWithSingleErrorStr(e))]
               /\ pc' = [pc EXCEPT ![r] = "Rejected"]
          ELSE /\ pc' = [pc EXCEPT ![r] = "Validated"]
               /\ UNCHANGED responses
    /\ UNCHANGED <<config, vars, hookTransformResult, triggerURL, respondWithErrors,
                   idx, calls, lookups, transformCalls, resolverCalls>>

\* Lines 78-82: the provider lookup.
LookupProvider(r) ==
    /\ pc[r] = "Validated"
    /\ lookups' = [lookups EXCEPT ![r] = @ + 1]
    /\ IF ~IsSupported(vars[r].serviceID)
       THEN /\ responses' = [responses EXCEPT ![r] = Append(@,
                   RespondWithSingleErrorStr(UnsupportedProviderMessage(vars[r].serviceID)))]
            /\ pc' = [pc EXCEPT ![r] = "Rejected"]
       ELSE /\ pc' = [pc EXCEPT ![r] = "ProviderResolved"]
            /\ UNCHANGED responses
    /\ UNCHANGED <<config, vars, hookTransformResult, triggerURL, respondWithErrors,
                   idx, calls, transformCalls, resolverCalls>>

\* Lines 84-87: hookProvider.Transform(r) returns some TransformResultModel.
Transform(r) ==
    /\ pc[r] = "ProviderResolved"
    /\ \E res \in TransformResultModel :
         hookTransformResult' = [hookTransformResult EXCEPT ![r] = res]
    /\ transformCalls' = [transformCalls EXCEPT ![r] = @ + 1]
    /\ pc' = [pc EXCEPT ![r] = "Transformed"]
    /\ UNCHANGED <<config, vars, triggerURL, respondWithErrors, idx, calls, responses,
                   lookups, resolverCalls>>

\* Lines 89-95: a skipped webhook is acknowledged.
RespondSkip(r) ==
    /\ pc[r] = "Transformed"
    /\ ClassifyTransformResult(hookTransformResult[r]) = "Skip"
    /\ responses' = [responses EXCEPT ![r] = Append(@,
            RespondWithSuccess(SkipMessage(hookTransformResult[r])))]
    /\ pc' = [pc EXCEPT ![r] = "Acknowledged"]
    /\ UNCHANGED <<config, vars, hookTransformResult, triggerURL, respondWithErrors,
                   idx, calls, lookups, transformCalls, resolverCalls>>

\* Lines 96-101: a failed transform is rejected.
RespondTransformError(r) ==
    /\ pc[r] = "Transformed"
    /\ ClassifyTransformResult(hookTransformResult[r]) = "Error"
    /\ responses' = [responses EXCEPT ![r] = Append(@,
            RespondWithSingleErrorStr(TransformErrorMessage(hookTransformResult[r])))]
    /\ pc' = [pc EXCEPT ![r] = "Rejected"]
    /\ UNCHANGED <<config, vars, hookTransformResult, triggerURL, respondWithErrors,
                   idx, calls, lookups, transformCalls, resolverCalls>>

\* A resolution that stores the derived URL in config.SendRequestToURL.
ResolveURL_storesInConfig(r) ==
    /\ pc[r] = "Transformed"
    /\ ClassifyTransformResult(hookTransformResult[r]) = "Triggers"
    /\ LET u == ResolveTriggerURL(config.SendRequestToURL, vars[r].appSlug)
       IN /\ resolverCalls' = [resolverCalls EXCEPT ![r] = @ + u.resolved]
          /\ IF u.err # Nil
             THEN /\ responses' = [responses EXCEPT ![r] = Append(@,
                         RespondWithSingleErrorStr(BuildURLErrorMessage(u.err)))]
                  /\ pc' = [pc EXCEPT ![r] = "Rejected"]
                  /\ UNCHANGED <<triggerURL, config>>
             ELSE /\ triggerURL' = [triggerURL EXCEPT ![r] = u.url]
                  /\ config' = [config EXCEPT !.SendRequestToURL = u.url]
                  /\ pc' = [pc EXCEPT ![r] = "Dispatching"]
                  /\ UNCHANGED responses
    /\ UNCHANGED <<vars, hookTransformResult, respondWithErrors, idx, calls,
                   lookups, transformCalls>>

\* Lines 103-116: the trigger URL is resolved; a failure is rejected.
ResolveURL(r) ==
    /\ pc[r] = "Transformed"
    /\ ClassifyTransformResult(hookTransformResult[r]) = "Triggers"
    /\ LET u == ResolveTriggerURL(config.SendRequestToURL, vars[r].appSlug)
       IN /\ resolverCalls' = [resolverCalls EXCEPT ![r] = @ + u.resolved]
          /\ IF u.err # Nil
             THEN /\ responses' = [responses EXCEPT ![r] = Append(@,
                         RespondWithSingleErrorStr(BuildURLErrorMessage(u.err)))]
                  /\ pc' = [pc EXCEPT ![r] = "Rejected"]
                  /\ UNCHANGED triggerURL
             ELSE /\ triggerURL' = [triggerURL EXCEPT ![r] = u.url]
                  /\ pc' = [pc EXCEPT ![r] = "Dispatching"]
                  /\ UNCHANGED responses
    /\ UNCHANGED <<config, vars, hookTransformResult, respondWithErrors, idx, calls,
                   lookups, transformCalls>>

\* The record of one call of triggerBuild (lines 48-56) that bitriseapi.TriggerBuild
\* answered with apiErr.
TriggerCall(r, params, apiErr) ==
    [url |-> triggerURL[r], apiToken |-> vars[r].apiToken, params |-> params,
     isOnlyLog |-> IsOnlyLog(config), err |-> apiErr]

\* Lines 118-120 and 136-139: no TriggerAPIParams.
DispatchNone(r) ==
    /\ pc[r] = "Dispatching"
    /\ DispatchBranch(Len(hookTransformResult[r].TriggerAPIParams)) = "None"
    /\ LET errs == Append(respondWithErrors[r], NoEventMessage)
           resp == ComposeResponse(errs, Len(hookTransformResult[r].TriggerAPIParams))
       IN /\ respondWithErrors' = [respondWithErrors EXCEPT ![r] = errs]
          /\ responses' = [responses EXCEPT ![r] = Append(@, resp)]
          /\ pc' = [pc EXCEPT ![r] = DispatchEnd(resp)]
    /\ UNCHANGED <<config, vars, hookTransformResult, triggerURL, idx, calls, lookups,
                   transformCalls, resolverCalls>>

\* What the dispatch of request r holds: the errors collected, the downstream
\* calls made and the number of entries submitted.
DispatchState(r) ==
    [errs |-> respondWithErrors[r], calls |-> calls[r], idx |-> idx[r]]

\* A single branch that returns on an error without collecting it.
SingleBranch_swallowsError(r, d, apiErr) ==
    [errs |-> d.errs,
     calls |-> Append(d.calls,
                      TriggerCall(r, hookTransformResult[r].TriggerAPIParams[1], apiErr)),
     idx |-> 1,
     done |-> TRUE]

\* Lines 121-126: the branch buildTriggerCount == 1, from dispatch state d, with
\* bitriseapi.TriggerBuild answering apiErr: one call for entry 0, then done.
SingleBranch(r, d, apiErr) ==
    [errs |-> CollectError(d.errs, TriggerBuildError(apiErr)),
     calls |-> Append(d.calls,
                      TriggerCall(r, hookTransformResult[r].TriggerAPIParams[1], apiErr)),
     idx |-> 1,
     done |-> TRUE]

\* A loop that submits an entry a second time when its first attempt failed.
LoopBranch_retriesOnce(r, d, apiErr) ==
    LET params == hookTransformResult[r].TriggerAPIParams
        i == d.idx + 1
        err == TriggerBuildError(apiErr)
        first == d.calls = <<>> \/ d.calls[Len(d.calls)].params # params[i]
    IN IF err # Nil /\ first
       THEN [errs |-> d.errs,
             calls |-> Append(d.calls, TriggerCall(r, params[i], apiErr)),
             idx |-> d.idx,
             done |-> FALSE]
       ELSE [errs |-> CollectError(d.errs, err),
             calls |-> Append(d.calls, TriggerCall(r, params[i], apiErr)),
             idx |-> i,
             done |-> ~LoopContinues(i, Len(params), err)]

\* Lines 128-132: one iteration of the loop, from dispatch state d, with
\* bitriseapi.TriggerBuild answering apiErr: one call for the next entry, done
\* when the loop does not go on.
LoopBranch(r, d, apiErr) ==
    LET params == hookTransformResult[r].TriggerAPIParams
        i == d.idx + 1
        err == TriggerBuildError(apiErr)
    IN [errs |-> CollectError(d.errs, err),
        calls |-> Append(d.calls, TriggerCall(r, params[i], apiErr)),
        idx |-> i,
        done |-> ~LoopContinues(i, Len(params), err)]

\* The error of the last call of triggerBuild the dispatch made, nil before the
\* first one.
LastTriggerError(d) ==
    IF d.calls = <<>> THEN Nil ELSE TriggerBuildError(d.calls[Len(d.calls)].err)

\* Lines 121 and 128: the dispatch of request r has a call of triggerBuild left
\* to make: the one entry of the single branch, or the next entry of the loop.
CallsLeft(r) ==
    LET n == Len(hookTransformResult[r].TriggerAPIParams)
        d == DispatchState(r)
    IN IF DispatchBranch(n) = "Single" THEN d.idx = 0
       ELSE IF DispatchBranch(n) = "Loop"
            THEN LoopContinues(d.idx, n, LastTriggerError(d))
            ELSE FALSE

\* Lines 121-126: exactly one TriggerAPIParams: the one blocking call of
\* triggerBuild and the collection of its error.
DispatchSingle(r) ==
    /\ pc[r] = "Dispatching"
    /\ DispatchBranch(Len(hookTransformResult[r].TriggerAPIParams)) = "Single"
    /\ CallsLeft(r)
    /\ \E apiErr \in APIErrors \cup {Nil} :
         LET d == SingleBranch(r, DispatchState(r), apiErr)
         IN /\ calls' = [calls EXCEPT ![r] = d.calls]
            /\ idx' = [idx EXCEPT ![r] = d.idx]
            /\ respondWithErrors' = [respondWithErrors EXCEPT ![r] = d.errs]
    /\ UNCHANGED <<config, pc, vars, hookTransformResult, triggerURL, responses,
                   lookups, transformCalls, resolverCalls>>

\* Lines 127-132: one iteration of the loop over the TriggerAPIParams: one
\* blocking call of triggerBuild and the collection of its error.
DispatchLoop(r) ==
    /\ pc[r] = "Dispatching"
    /\ DispatchBranch(Len(hookTransformResult[r].TriggerAPIParams)) = "Loop"
    /\ CallsLeft(r)
    /\ \E apiErr \in APIErrors \cup {Nil} :
         LET d == LoopBranch(r, DispatchState(r), apiErr)
         IN /\ calls' = [calls EXCEPT ![r] = d.calls]
            /\ idx' = [idx EXCEPT ![r] = d.idx]
            /\ respondWithErrors' = [respondWithErrors EXCEPT ![r] = d.errs]
    /\ UNCHANGED <<config, pc, vars, hookTransformResult, triggerURL, responses,
                   lookups, transformCalls, resolverCalls>>

\* Lines 136-147: after the last call of triggerBuild has returned, the response
\* is written from the errors collected.
DispatchRespond(r) ==
    /\ pc[r] = "Dispatching"
    /\ DispatchBranch(Len(hookTransformResult[r].TriggerAPIParams)) # "None"
    /\ ~CallsLeft(r)
    /\ LET resp == ComposeResponse(respondWithErrors[r],
                                   Len(hookTransformResult[r].TriggerAPIParams))
       IN /\ responses' = [responses EXCEPT ![r] = Append(@, resp)]
          /\ pc' = [pc EXCEPT ![r] = DispatchEnd(resp)]
    /\ UNCHANGED <<config, vars, hookTransformResult, triggerURL, respondWithErrors,
                   idx, calls, lookups, transformCalls, resolverCalls>>

Next ==
    \E r \in Reqs :
        \/ Receive(r)
        \/ Validate(r)
        \/ LookupProvider(r)
        \/ Transform(r)
        \/ RespondSkip(r)
        \/ RespondTransformError(r)
        \/ ResolveURL(r)
        \/ DispatchNone(r)
        \/ DispatchSingle(r)
        \/ DispatchLoop(r)
        \/ DispatchRespond(r)

Spec == Init /\ [][Next]_allvars

\* The steps HTTPHandler takes for a request it has received.
HandlerStep(r) ==
    \/ Validate(r)
    \/ LookupProvider(r)
    \/ Transform(r)
    \/ RespondSkip(r)
    \/ RespondTransformError(r)
    \/ ResolveURL(r)
    \/ DispatchNone(r)
    \/ DispatchSingle(r)
    \/ DispatchLoop(r)
    \/ DispatchRespond(r)

\* The handler of every received request keeps running: the Go scheduler runs
\* its goroutine, and Transform, the URL resolution and each downstream call
\* return.
LiveSpec == Spec /\ \A r \in Reqs : WF_allvars(HandlerStep(r))

\* ------------------------------------------------------- claims: vocabulary
Terminal(r) == pc[r] \in {"Acknowledged", "Rejected", "Success", "Failure"}

\* The request went through the dispatch (lines 115-134) and was answered.
Dispatched(r) == pc[r] \in {"Success", "Failure"}

\* Provider.Transform has returned for the request.
Transformed(r) == transformCalls[r] > 0

\* buildTriggerCount
TriggerCount(r) == Len(hookTransformResult[r].TriggerAPIParams)

\* The downstream calls of the request that failed, in call order.
FailedCalls(r) == SelectSeq(calls[r], LAMBDA c : c.err # Nil)

\* The request was answered with a rejection carrying exactly the errors errs.
RejectedWith(r, errs) ==
    /\ pc[r] \in {"Rejected", "Failure"}
    /\ responses[r] = <<[status |-> StatusBadRequest, message |-> Nil, errors |-> errs]>>

\* The request was answered with a rejection carrying one error.
RejectedWithSingleError(r) ==
    /\ pc[r] \in {"Rejected", "Failure"}
    /\ Len(responses[r]) = 1
    /\ responses[r][1].status = StatusBadRequest
    /\ Len(responses[r][1].errors) = 1

\* The request was answered with an acceptance.
Accepted(r) ==
    /\ pc[r] \in {"Acknowledged", "Success"}
    /\ Len(responses[r]) = 1
    /\ responses[r][1].status = StatusOK
    /\ responses[r][1].errors = <<>>

\* ----------------------------------------------------------------------- C1
\* C1: a request that went through the dispatch with N TriggerAPIParams made
\* exactly N downstream trigger attempts, whichever of them failed; while the
\* dispatch runs, the attempts made are the first idx entries of the list.
C1_AttemptsEqualParams ==
    \A r \in Reqs :
        /\ Dispatched(r) => Len(calls[r]) = TriggerCount(r)
        /\ pc[r] = "Dispatching" => Len(calls[r]) = idx[r] /\ idx[r] <= TriggerCount(r)

\* A request of three or more entries whose first attempt failed and which still
\* made all its attempts.
C1_Witness ==
    \E r \in Reqs :
        /\ Dispatched(r)
        /\ TriggerCount(r) >= 3
        /\ Len(calls[r]) = TriggerCount(r)
        /\ calls[r][1].err # Nil
        /\ calls[r][2].err = Nil

\* ----------------------------------------------------------------------- C2
\* C2: after the dispatch of N >= 1 TriggerAPIParams the response carries one
\* error per failed attempt (each the wrapped error of a failed attempt) and none
\* for a successful one; the request is rejected iff at least one attempt failed,
\* and the rejection is one response carrying all the errors.
C2_OneErrorPerFailure ==
    \A r \in Reqs :
        (Dispatched(r) /\ TriggerCount(r) >= 1) =>
            LET failed == FailedCalls(r)
                resp == responses[r][1]
            IN /\ Len(responses[r]) = 1
               /\ Len(resp.errors) = Len(failed)
               /\ \A i \in 1..Len(failed) :
                    \E j \in 1..Len(resp.errors) : Includes(resp.errors[j], failed[i].err)
               /\ \A j \in 1..Len(resp.errors) :
                    \E i \in 1..Len(failed) : Includes(resp.errors[j], failed[i].err)
               /\ (resp.status = StatusBadRequest) <=> (Len(failed) >= 1)
               /\ (resp.status = StatusOK) <=> (Len(failed) = 0)
               /\ (pc[r] = "Failure") <=> (Len(failed) >= 1)

\* A partial failure: two attempts failed with different errors, one succeeded,
\* and the rejection carries the two errors.
C2_Witness ==
    \E r \in Reqs :
        /\ pc[r] = "Failure"
        /\ Len(calls[r]) >= 3
        /\ Len(FailedCalls(r)) = 2
        /\ FailedCalls(r)[1].err # FailedCalls(r)[2].err
        /\ Len(responses[r][1].errors) = 2

\* ----------------------------------------------------------------------- C3
\* The transform result with no skip, no error and no TriggerAPIParams.
NoEventResult(r) ==
    /\ Transformed(r)
    /\ ~hookTransformResult[r].ShouldSkip
    /\ hookTransformResult[r].Error = Nil
    /\ TriggerCount(r) = 0

\* C3 as stated: an answered request whose Provider returned no TriggerAPIParams,
\* no skip and no error is rejected with the single "no event" error and made no
\* downstream call, whatever the trigger URL resolution gave.
C3_Original ==
    \A r \in Reqs :
        (Terminal(r) /\ NoEventResult(r)) =>
            /\ RejectedWith(r, <<NoEventMessage>>)
            /\ calls[r] = <<>>

\* C3 amended: such a request is rejected with the single "no event" error when
\* the trigger URL resolution succeeds (an override URL is configured, or the URL
\* derives from the app slug); when the derivation fails it is rejected with the
\* single URL-resolution error; in both cases no downstream call is made.
C3_NoEventRejected ==
    \A r \in Reqs :
        (Terminal(r) /\ NoEventResult(r)) =>
            /\ calls[r] = <<>>
            /\ IF \/ config.SendRequestToURL # Nil
                  \/ BuildTriggerURL("https://www.bitrise.io", vars[r].appSlug).err = Nil
               THEN RejectedWith(r, <<NoEventMessage>>) /\ pc[r] = "Failure"
               ELSE /\ RejectedWithSingleError(r)
                    /\ Includes(responses[r][1].errors[1],
                                <<"Failed to create Build Trigger URL: ">>)
                    /\ pc[r] = "Rejected"

\* A request with no event that was rejected with the synthesized error.
C3_Witness ==
    \E r \in Reqs :
        /\ NoEventResult(r)
        /\ pc[r] = "Failure"
        /\ responses[r] = <<RespondWithErrorJSON(<<NoEventMessage>>)>>
        /\ calls[r] = <<>>

\* ----------------------------------------------------------------------- C4
\* C4 as stated: a request whose TransformResultModel carries a non-nil Error is
\* never accepted and never dispatched, and once answered it is rejected with a
\* single error whose text includes the text of Error.
C4_Original ==
    \A r \in Reqs :
        (Transformed(r) /\ hookTransformResult[r].Error # Nil) =>
            /\ pc[r] \in {"Transformed", "Rejected"}
            /\ calls[r] = <<>>
            /\ Terminal(r) =>
                 /\ RejectedWithSingleError(r)
                 /\ Includes(responses[r][1].errors[1], hookTransformResult[r].Error)

\* C4 amended: a request whose TransformResultModel carries a non-nil Error and
\* has ShouldSkip false is never accepted and never dispatched (no URL
\* resolution, no downstream call), and once answered it is rejected with a
\* single error whose text includes the text of Error.
C4_TransformErrorRejected ==
    \A r \in Reqs :
        (Transformed(r) /\ hookTransformResult[r].Error # Nil
                        /\ ~hookTransformResult[r].ShouldSkip) =>
            /\ pc[r] \in {"Transformed", "Rejected"}
            /\ calls[r] = <<>>
            /\ resolverCalls[r] = 0
            /\ Terminal(r) =>
                 /\ RejectedWithSingleError(r)
                 /\ Includes(responses[r][1].errors[1], hookTransformResult[r].Error)

\* A request with a transform error and TriggerAPIParams that was rejected.
C4_Witness ==
    \E r \in Reqs :
        /\ Transformed(r)
        /\ hookTransformResult[r].Error # Nil
        /\ ~hookTransformResult[r].ShouldSkip
        /\ TriggerCount(r) >= 1
        /\ pc[r] = "Rejected"
        /\ responses[r][1].errors =
             <<(<<"Failed to transform the webhook: ">> \o hookTransformResult[r].Error)>>

\* ----------------------------------------------------------------------- C5
\* C5: an answered request whose TransformResultModel has ShouldSkip true is
\* accepted, made no downstream call, and its message includes the skip reason,
\* which the handler takes from the Error field (the reason X is Error's text).
C5_SkipAccepted ==
    \A r \in Reqs :
        (Terminal(r) /\ Transformed(r) /\ hookTransformResult[r].ShouldSkip) =>
            /\ Accepted(r)
            /\ pc[r] = "Acknowledged"
            /\ calls[r] = <<>>
            /\ hookTransformResult[r].Error # Nil =>
                 Includes(responses[r][1].message, hookTransformResult[r].Error)

\* A skipped request with a reason and with TriggerAPIParams, acknowledged with
\* the reason in the message.
C5_Witness ==
    \E r \in Reqs :
        /\ Transformed(r)
        /\ hookTransformResult[r].ShouldSkip
        /\ hookTransformResult[r].Error = <<"Ping event received">>
        /\ TriggerCount(r) >= 1
        /\ pc[r] = "Acknowledged"
        /\ responses[r] = <<[status |-> StatusOK,
                             message |-> <<"Acknowledged, but skipping. Reason: ",
                                           "Ping event received">>,
                             errors |-> <<>>]>>

\* ----------------------------------------------------------------------- C6
\* The success message the claim expects for n builds.
C6_ExpectedMessage(n) ==
    IF n = 1 THEN <<"Successfully triggered 1 build.">>
    ELSE <<"Successfully triggered ", Digit(n), " builds.">>

\* C6: a dispatched request of N >= 1 TriggerAPIParams whose attempts all
\* succeeded is accepted with the message reporting N (singular at N = 1), and a
\* request with no TriggerAPIParams never ends in the dispatch's success.
C6_SuccessMessageReportsN ==
    \A r \in Reqs :
        /\ (Dispatched(r) /\ TriggerCount(r) >= 1 /\ FailedCalls(r) = <<>>) =>
             /\ pc[r] = "Success"
             /\ Accepted(r)
             /\ responses[r][1].message = C6_ExpectedMessage(TriggerCount(r))
        /\ (Transformed(r) /\ TriggerCount(r) = 0) =>
             /\ pc[r] # "Success"
             /\ \A i \in 1..Len(responses[r]) :
                  ~Includes(responses[r][i].message, <<"Successfully triggered ">>)

\* One request accepted for one build and another accepted for several.
C6_Witness ==
    \E r1, r2 \in Reqs :
        /\ pc[r1] = "Success" /\ TriggerCount(r1) = 1 /\ Len(calls[r1]) = 1
        /\ responses[r1][1].message = <<"Successfully triggered 1 build.">>
        /\ pc[r2] = "Success" /\ TriggerCount(r2) = 3 /\ Len(calls[r2]) = 3
        /\ responses[r2][1].message = <<"Successfully triggered ", "3", " builds.">>

\* ----------------------------------------------------------------------- C7
\* The handler has done the presence checks of the request.
Checked(r) == pc[r] \notin {"Idle", "Received"}

\* The request was rejected before the provider lookup with the single error
\* that names parameter name, and nothing else was done for it.
C7_RejectedNaming(r, name) ==
    /\ RejectedWithSingleError(r)
    /\ pc[r] = "Rejected"
    /\ Includes(responses[r][1].errors[1], <<name>>)
    /\ \A other \in {"service-id", "App Slug", "API Token"} \ {name} :
         ~Includes(responses[r][1].errors[1], <<other>>)
    /\ lookups[r] = 0
    /\ transformCalls[r] = 0
    /\ resolverCalls[r] = 0
    /\ calls[r] = <<>>

\* C7: a request that omits service-id, app-slug or api-token is rejected with a
\* single error naming the first omitted one in the order service-id, app-slug,
\* api-token, with no provider lookup, Transform, URL resolution or downstream
\* call; a request that omits none is not rejected by the validation.
C7_MissingParameterRejected ==
    \A r \in Reqs :
        Checked(r) =>
            /\ vars[r].serviceID = "" => C7_RejectedNaming(r, "service-id")
            /\ (vars[r].serviceID # "" /\ vars[r].appSlug = "") =>
                 C7_RejectedNaming(r, "App Slug")
            /\ (vars[r].serviceID # "" /\ vars[r].appSlug # "" /\ vars[r].apiToken = "") =>
                 C7_RejectedNaming(r, "API Token")
            /\ (vars[r].serviceID # "" /\ vars[r].appSlug # "" /\ vars[r].apiToken # "") =>
                 (pc[r] = "Validated" \/ lookups[r] = 1)

\* One request omitting app-slug and api-token rejected on the app slug, and one
\* omitting only the api-token rejected on the token.
C7_Witness ==
    \E r1, r2 \in Reqs :
        /\ vars[r1].serviceID # "" /\ vars[r1].appSlug = "" /\ vars[r1].apiToken = ""
        /\ responses[r1] = <<RespondWithErrorJSON(<<(<<"No ", "App Slug", " parameter defined">>)>>)>>
        /\ vars[r2].serviceID # "" /\ vars[r2].appSlug # "" /\ vars[r2].apiToken = ""
        /\ responses[r2] = <<RespondWithErrorJSON(<<(<<"No ", "API Token", " parameter defined">>)>>)>>

\* ----------------------------------------------------------------------- C8
\* C8: a request with the three parameters present whose service-id is no key of
\* supportedProviders() is, once looked up, rejected with a single error whose
\* text includes the service-id, with no Transform, URL resolution or downstream
\* call.
C8_UnsupportedProviderRejected ==
    \A r \in Reqs :
        (/\ Checked(r) /\ pc[r] # "Validated"
         /\ vars[r].serviceID # "" /\ vars[r].appSlug # "" /\ vars[r].apiToken # ""
         /\ vars[r].serviceID \notin supportedProviders) =>
            /\ RejectedWithSingleError(r)
            /\ pc[r] = "Rejected"
            /\ Includes(responses[r][1].errors[1], <<vars[r].serviceID>>)
            /\ lookups[r] = 1
            /\ transformCalls[r] = 0
            /\ resolverCalls[r] = 0
            /\ calls[r] = <<>>

\* A request for the unregistered provider gitlab, rejected after the lookup.
C8_Witness ==
    \E r \in Reqs :
        /\ vars[r].serviceID = "gitlab"
        /\ lookups[r] = 1
        /\ pc[r] = "Rejected"
        /\ responses[r] = <<RespondWithErrorJSON(
                               <<(<<"Unsupported Webhook Type / Provider: ", "gitlab">>)>>)>>

\* ----------------------------------------------------------------------- C9
\* The request got past the classification of a transform result with triggers.
Resolved(r) ==
    /\ Transformed(r)
    /\ ClassifyTransformResult(hookTransformResult[r]) = "Triggers"
    /\ pc[r] # "Transformed"

\* C9: with an override URL configured every downstream call uses that URL and
\* BuildTriggerURL is never called; without one every downstream call uses the
\* URL derived from the request's app slug, BuildTriggerURL is called once per
\* request, and a request whose derivation fails is rejected with a single error
\* after that one call and makes no downstream call.
C9_TriggerURLResolution ==
    \A r \in Reqs :
        /\ resolverCalls[r] <= 1
        /\ config.SendRequestToURL # Nil =>
             /\ resolverCalls[r] = 0
             /\ \A i \in 1..Len(calls[r]) : calls[r][i].url = config.SendRequestToURL
             /\ Resolved(r) => triggerURL[r] = config.SendRequestToURL
        /\ (config.SendRequestToURL = Nil /\ Resolved(r)) =>
             /\ resolverCalls[r] = 1
             /\ IF vars[r].appSlug = "%zz"
                THEN /\ RejectedWithSingleError(r)
                     /\ pc[r] = "Rejected"
                     /\ Includes(responses[r][1].errors[1],
                                 <<"Failed to create Build Trigger URL: ">>)
                     /\ calls[r] = <<>>
                ELSE /\ pc[r] \in {"Dispatching", "Success", "Failure"}
                     /\ triggerURL[r] = <<"https://www.bitrise.io", "/app/", vars[r].appSlug,
                                          "/build/start.json">>
                     /\ \A i \in 1..Len(calls[r]) : calls[r][i].url = triggerURL[r]
        /\ (config.SendRequestToURL = Nil /\ ~Resolved(r)) =>
             resolverCalls[r] = 0 /\ calls[r] = <<>>

\* Without an override URL: one request rejected for its underivable URL after
\* one call of the resolver, another that made two calls to its derived URL.
C9_Witness ==
    \E r1, r2 \in Reqs :
        /\ config.SendRequestToURL = Nil
        /\ vars[r1].appSlug = "%zz" /\ resolverCalls[r1] = 1 /\ pc[r1] = "Rejected"
        /\ TriggerCount(r1) >= 1 /\ calls[r1] = <<>>
        /\ Len(calls[r2]) >= 2 /\ resolverCalls[r2] = 1
        /\ calls[r2][2].url = <<"https://www.bitrise.io", "/app/", "app1", "/build/start.json">>

\* ---------------------------------------------------------------------- C10
\* The transitions of the request state machine: the chain Received -> Validated
\* -> ProviderResolved -> Transformed -> Acknowledged | Rejected | Dispatching ->
\* Success | Failure, where every error condition met on the way (a missing
\* parameter in Received, a lookup miss in Validated) leads to Rejected.
C10_Edges ==
    {<<"Idle", "Received">>,
     <<"Received", "Validated">>, <<"Received", "Rejected">>,
     <<"Validated", "ProviderResolved">>, <<"Validated", "Rejected">>,
     <<"ProviderResolved", "Transformed">>,
     <<"Transformed", "Acknowledged">>, <<"Transformed", "Rejected">>,
     <<"Transformed", "Dispatching">>,
     <<"Dispatching", "Success">>, <<"Dispatching", "Failure">>}

\* The step of request r, if it moves, follows an edge; Acknowledged is entered
\* from Transformed{Skip}, Dispatching from Transformed{Triggers}, and Rejected
\* from Transformed{Error} or Transformed{Triggers} (the URL resolution failed).
C10_StepOver(r, edges) ==
    pc'[r] # pc[r] =>
        /\ <<pc[r], pc'[r]>> \in edges
        /\ pc[r] = "Transformed" =>
             LET class == ClassifyTransformResult(hookTransformResult[r])
             IN /\ pc'[r] = "Acknowledged" <=> class = "Skip"
                /\ pc'[r] = "Dispatching" => class = "Triggers"
                /\ class = "Error" => pc'[r] = "Rejected"

\* The answered request has exactly one response, an acceptance (skip, or all
\* triggers succeeded) or a rejection with the one rejection status; the
\* unanswered request has none.
C10_OneResponse(r) ==
    IF Terminal(r)
    THEN /\ Len(responses[r]) = 1
         /\ responses[r][1].status \in {StatusOK, StatusBadRequest}
         /\ responses[r][1].status = StatusOK <=> pc[r] \in {"Acknowledged", "Success"}
         /\ responses[r][1].status = StatusBadRequest <=> pc[r] \in {"Rejected", "Failure"}
         /\ pc[r] = "Acknowledged" => hookTransformResult[r].ShouldSkip
         /\ pc[r] = "Success" =>
              /\ Len(calls[r]) = TriggerCount(r)
              /\ FailedCalls(r) = <<>>
         /\ responses[r][1].status = StatusBadRequest =>
              /\ Len(responses[r][1].errors) >= 1
              /\ responses[r][1].message = Nil
    ELSE responses[r] = <<>>

\* The step of request r follows the state machine of the handler.
C10_Step(r) == C10_StepOver(r, C10_Edges)

\* The transitions the claim lists, read strictly: Rejected is entered from
\* Transformed only.
C10_ListedEdges ==
    C10_Edges \ {<<"Received", "Rejected">>, <<"Validated", "Rejected">>}

\* C10 as stated: every request follows only the listed transitions, so that a
\* request is never rejected before its Transform, and ends with exactly one
\* response of one of the two status classes.
C10_Original ==
    /\ [][\A r \in Reqs : C10_StepOver(r, C10_ListedEdges)]_allvars
    /\ [][\A r \in Reqs : Terminal(r) => (pc'[r] = pc[r] /\ responses'[r] = responses[r])]_allvars
    /\ [](\A r \in Reqs : C10_OneResponse(r))

\* C10: every request follows only the transitions of the state machine, the
\* listed ones and the two rejections before Transform (Received -> Rejected on
\* a missing parameter, Validated -> Rejected on a lookup miss), and a
\* request in a terminal state has exactly one response written, of one of the
\* two status classes; a request not yet in a terminal state has none, and a
\* terminal state is never left.
C10_Lifecycle ==
    /\ [][\A r \in Reqs : C10_Step(r)]_allvars
    /\ [][\A r \in Reqs : Terminal(r) => (pc'[r] = pc[r] /\ responses'[r] = responses[r])]_allvars
    /\ [](\A r \in Reqs : C10_OneResponse(r))

\* One request ended in Success with its one acceptance while another was
\* Rejected by the validation with its one rejection.
C10_Witness ==
    \E r1, r2 \in Reqs :
        /\ pc[r1] = "Success" /\ Len(responses[r1]) = 1
        /\ responses[r1][1].status = StatusOK
        /\ pc[r2] = "Rejected" /\ lookups[r2] = 0 /\ Len(responses[r2]) = 1
        /\ responses[r2][1].status = StatusBadRequest

\* ---------------------------------------------------------------------- C11
\* C11: every rejection written by the handler, on every path, carries at least
\* one error, and none of its errors is the nil error.
C11_RejectionNeverEmpty ==
    \A r \in Reqs :
        \A i \in 1..Len(responses[r]) :
            responses[r][i].status # StatusOK =>
                /\ Len(responses[r][i].errors) >= 1
                /\ \A j \in 1..Len(responses[r][i].errors) : responses[r][i].errors[j] # Nil

\* A rejection of the validation with its one error beside a rejection of the
\* dispatch carrying the errors of two failed attempts.
C11_Witness ==
    \E r1, r2 \in Reqs :
        /\ pc[r1] = "Rejected" /\ lookups[r1] = 0
        /\ Len(responses[r1][1].errors) = 1
        /\ pc[r2] = "Failure" /\ TriggerCount(r2) >= 2
        /\ Len(responses[r2][1].errors) = 2

\* ---------------------------------------------------------------------- C12
\* The errors triggerBuild returned for the failed calls of the request, in call
\* order.
C12_FailedErrors(r) ==
    [j \in 1..Len(FailedCalls(r)) |->
        <<"Failed to Trigger the Build: ">> \o FailedCalls(r)[j].err]

\* The step of request r makes at most one downstream call, the call of the
\* entry that follows the ones already submitted, and writes no response: the
\* response is written by a later step, after the last call has returned.
C12_OneCallPerStep(r) ==
    calls'[r] # calls[r] =>
        /\ pc[r] = "Dispatching" /\ pc'[r] = "Dispatching"
        /\ responses'[r] = responses[r]
        /\ Len(calls'[r]) = Len(calls[r]) + 1
        /\ SubSeq(calls'[r], 1, Len(calls[r])) = calls[r]
        /\ calls'[r][Len(calls'[r])].params =
             hookTransformResult[r].TriggerAPIParams[Len(calls[r]) + 1]

\* C12: the downstream calls of a request are made one at a time in the input
\* order of its TriggerAPIParams, the i-th call submitting the i-th entry (so
\* each entry is submitted at most once, and exactly once when the request is
\* answered), and the errors collected, and those of the rejection, are the
\* errors of the failed calls in that order.
C12_SequentialInInputOrder ==
    /\ [][\A r \in Reqs : C12_OneCallPerStep(r)]_allvars
    /\ [](\A r \in Reqs :
            /\ Len(calls[r]) <= TriggerCount(r)
            /\ \A i \in 1..Len(calls[r]) :
                 calls[r][i].params = hookTransformResult[r].TriggerAPIParams[i]
            /\ TriggerCount(r) >= 1 => respondWithErrors[r] = C12_FailedErrors(r)
            /\ (Dispatched(r) /\ TriggerCount(r) >= 1) =>
                 /\ Len(calls[r]) = TriggerCount(r)
                 /\ responses[r][1].errors = C12_FailedErrors(r))

\* A request of three entries whose first and third calls failed with different
\* errors: the rejection lists the first call's error before the third's.
C12_Witness ==
    \E r \in Reqs :
        /\ pc[r] = "Failure"
        /\ Len(calls[r]) = 3
        /\ calls[r][1].err = <<"timeout">>
        /\ calls[r][2].err = Nil
        /\ calls[r][3].err = <<"status 500">>
        /\ responses[r][1].errors =
             << <<"Failed to Trigger the Build: ", "timeout">>,
                <<"Failed to Trigger the Build: ", "status 500">> >>

\* ---------------------------------------------------------------------- C13
\* C13: a downstream call is log-only exactly when no override URL is configured
\* and the server environment mode is not production; with the configuration
\* unchanged, every call of every request has the same mode.
C13_LogOnlyByConfiguration ==
    /\ \A r \in Reqs :
         \A i \in 1..Len(calls[r]) :
            calls[r][i].isOnlyLog <=>
                (config.SendRequestToURL = Nil /\ config.ServerEnvMode # "production")
    /\ \A r1, r2 \in Reqs :
         \A i \in 1..Len(calls[r1]) :
            \A j \in 1..Len(calls[r2]) : calls[r1][i].isOnlyLog = calls[r2][j].isOnlyLog

\* With an override URL configured outside production, calls of two requests
\* were all performed for real.
C13_Witness ==
    \E r1, r2 \in Reqs :
        /\ r1 # r2
        /\ config.SendRequestToURL # Nil
        /\ config.ServerEnvMode = "development"
        /\ Len(calls[r1]) >= 2 /\ Len(calls[r2]) >= 1
        /\ ~calls[r1][2].isOnlyLog /\ ~calls[r2][1].isOnlyLog

\* Without an override URL outside production, a call was only logged.
C13_WitnessLogOnly ==
    \E r \in Reqs :
        /\ config.SendRequestToURL = Nil
        /\ config.ServerEnvMode = "development"
        /\ Len(calls[r]) >= 1
        /\ calls[r][1].isOnlyLog

\* ---------------------------------------------------------------------- C14
\* What the handler does for one request handled alone, as a function of the
\* configuration cfg, the request's own parameters v, its Provider's result res
\* and the answers apiErrs of its own downstream calls: the response and the
\* downstream calls, following lines 65-147 from top to bottom.
C14_HandledAlone(cfg, v, res, apiErrs) ==
    LET e == ValidateVars(v.serviceID, v.appSlug, v.apiToken)
        u == ResolveTriggerURL(cfg.SendRequestToURL, v.appSlug)
        n == Len(res.TriggerAPIParams)
        made == [i \in 1..n |->
                    [url |-> u.url, apiToken |-> v.apiToken,
                     params |-> res.TriggerAPIParams[i],
                     isOnlyLog |-> IsOnlyLog(cfg), err |-> apiErrs[i]]]
        failed == SelectSeq(apiErrs, LAMBDA x : x # Nil)
        errs == IF n = 0 THEN <<NoEventMessage>>
                ELSE [j \in 1..Len(failed) |-> TriggerBuildError(failed[j])]
    IN IF e # Nil
       THEN [response |-> RespondWithSingleErrorStr(e), calls |-> <<>>]
       ELSE IF ~IsSupported(v.serviceID)
       THEN [response |-> RespondWithSingleErrorStr(UnsupportedProviderMessage(v.serviceID)),
             calls |-> <<>>]
       ELSE IF ClassifyTransformResult(res) = "Skip"
       THEN [response |-> RespondWithSuccess(SkipMessage(res)), calls |-> <<>>]
       ELSE IF ClassifyTransformResult(res) = "Error"
       THEN [response |-> RespondWithSingleErrorStr(TransformErrorMessage(res)),
             calls |-> <<>>]
       ELSE IF u.err # Nil
       THEN [response |-> RespondWithSingleErrorStr(BuildURLErrorMessage(u.err)),
             calls |-> <<>>]
       ELSE [response |-> ComposeResponse(errs, n), calls |-> made]

\* The answers the request's own downstream calls got, one per TriggerAPIParams
\* entry (Nil for a call not made).
C14_OwnAnswers(r) ==
    [i \in 1..TriggerCount(r) |-> IF i <= Len(calls[r]) THEN calls[r][i].err ELSE Nil]

\* Everything the handler holds for request r.
C14_Local(r) ==
    <<pc[r], vars[r], hookTransformResult[r], triggerURL[r], respondWithErrors[r],
      idx[r], calls[r], responses[r], lookups[r], transformCalls[r], resolverCalls[r]>>

\* C14: under every interleaving of the requests' steps, a step changes what the
\* handler holds for one request only; the response and the downstream calls of
\* an answered request are those of the same request handled alone; and the calls
\* and collected errors of a request in its dispatch are its own.
C14_RequestsIndependent ==
    /\ [][\E q \in Reqs : \A r \in Reqs \ {q} : C14_Local(r)' = C14_Local(r)]_allvars
    /\ [](\A r \in Reqs :
            LET alone == C14_HandledAlone(config, vars[r], hookTransformResult[r],
                                          C14_OwnAnswers(r))
            IN /\ Terminal(r) =>
                    /\ responses[r] = <<alone.response>>
                    /\ calls[r] = alone.calls
               /\ pc[r] = "Dispatching" =>
                    /\ calls[r] = SubSeq(alone.calls, 1, Len(calls[r]))
                    /\ Len(respondWithErrors[r]) = Len(FailedCalls(r)))

\* Two requests in their dispatch at the same time, the first holding the error
\* of its failed call and the second none after its successful call.
C14_Witness ==
    \E r1, r2 \in Reqs :
        /\ r1 # r2
        /\ pc[r1] = "Dispatching" /\ idx[r1] = 1 /\ Len(respondWithErrors[r1]) = 1
        /\ pc[r2] = "Dispatching" /\ idx[r2] = 2 /\ respondWithErrors[r2] = <<>>

\* Two answered requests with different results: one rejected with the errors of
\* its two failed calls, the other accepted after its three successful calls.
C14_WitnessAnswered ==
    \E r1, r2 \in Reqs :
        /\ pc[r1] = "Failure" /\ Len(responses[r1][1].errors) = 2
        /\ pc[r2] = "Success" /\ Len(calls[r2]) = 3

\* ---------------------------------------------------------------------- C15
\* The keys of the provider registry at process start.
C15_RegistryAtStart == {"github"}

\* C15: no step of the handler changes the process configuration (override URL,
\* environment mode), and every lookup, whenever it is done and whatever was
\* handled before it, finds exactly the providers registered at process start.
C15_RegistryAndConfigUnchanged ==
    /\ [][config' = config]_allvars
    /\ [](\A r \in Reqs :
            lookups[r] >= 1 =>
                /\ lookups[r] = 1
                /\ (pc[r] = "Rejected" /\ transformCalls[r] = 0)
                       <=> vars[r].serviceID \notin C15_RegistryAtStart)

\* Without an override URL, one request missed the registry and another was
\* looked up, derived its trigger URL and was answered after its calls.
C15_Witness ==
    \E r1, r2 \in Reqs :
        /\ config.SendRequestToURL = Nil
        /\ lookups[r1] = 1 /\ vars[r1].serviceID = "gitlab" /\ pc[r1] = "Rejected"
        /\ lookups[r2] = 1 /\ resolverCalls[r2] = 1 /\ Dispatched(r2)
        /\ Len(calls[r2]) >= 1

\* ---------------------------------------------------------------------- C16
\* The request passed, in this order, the presence checks, the provider lookup,
\* a Transform that returned neither a skip nor an error, and the resolution of
\* its trigger URL.
C16_ReadyToTrigger(r) ==
    /\ vars[r].serviceID # "" /\ vars[r].appSlug # "" /\ vars[r].apiToken # ""
    /\ lookups[r] = 1
    /\ vars[r].serviceID \in supportedProviders
    /\ transformCalls[r] = 1
    /\ ~hookTransformResult[r].ShouldSkip
    /\ hookTransformResult[r].Error = Nil
    /\ triggerURL[r] # Nil

\* The steps of request r come in the handler's order: the lookup in Validated,
\* Transform after the lookup, the URL after Transform, a downstream call only in
\* the dispatch of a request that is ready to trigger.
C16_StepOrder(r) ==
    /\ lookups'[r] # lookups[r] =>
         pc[r] = "Validated" /\ transformCalls[r] = 0 /\ calls[r] = <<>>
    /\ transformCalls'[r] # transformCalls[r] =>
         /\ pc[r] = "ProviderResolved" /\ lookups[r] = 1
         /\ transformCalls[r] = 0 /\ triggerURL[r] = Nil /\ calls[r] = <<>>
    /\ triggerURL'[r] # triggerURL[r] =>
         pc[r] = "Transformed" /\ transformCalls[r] = 1 /\ calls[r] = <<>>
    /\ calls'[r] # calls[r] =>
         pc[r] = "Dispatching" /\ C16_ReadyToTrigger(r)

\* C16: a downstream call is made only by a request that was validated, found
\* its provider, got a Transform result with neither skip nor error and resolved
\* its trigger URL, in this order; a request that is Acknowledged or Rejected made
\* no downstream call; and Transform is called at most once per request.
C16_CallsOnlyAfterPipeline ==
    /\ [][\A r \in Reqs : C16_StepOrder(r)]_allvars
    /\ [](\A r \in Reqs :
            /\ calls[r] # <<>> =>
                 C16_ReadyToTrigger(r) /\ pc[r] \in {"Dispatching", "Success", "Failure"}
            /\ pc[r] \in {"Acknowledged", "Rejected"} => calls[r] = <<>>
            /\ transformCalls[r] <= 1)

\* One request that made its calls after the whole pipeline, beside one skipped
\* request with TriggerAPIParams that made none.
C16_Witness ==
    \E r1, r2 \in Reqs :
        /\ Len(calls[r1]) >= 2 /\ C16_ReadyToTrigger(r1)
        /\ pc[r2] = "Acknowledged" /\ TriggerCount(r2) >= 1 /\ calls[r2] = <<>>
        /\ transformCalls[r2] = 1

\* ---------------------------------------------------------------------- C17
\* The dispatch state at the start of the dispatch (line 115).
C17_Start == [errs |-> <<>>, calls |-> <<>>, idx |-> 0]

\* C17: for a request with exactly one TriggerAPIParams entry, the branch
\* buildTriggerCount == 1 and one run of the loop over the one-entry list give,
\* for a succeeding and for every failing downstream call, the same downstream
\* call with the same arguments, the same error list and the same response, with
\* the loop done after its one iteration; and what the handler did for such a
\* request is what the loop gives.
C17_SingleBranchIsLoopOfOne ==
    \A r \in Reqs :
        (TriggerCount(r) = 1 /\ pc[r] \in {"Dispatching", "Success", "Failure"}) =>
            /\ \A apiErr \in APIErrors \cup {Nil} :
                 LET single == SingleBranch(r, C17_Start, apiErr)
                     loop == LoopBranch(r, C17_Start, apiErr)
                 IN /\ single = loop
                    /\ Len(loop.calls) = 1
                    /\ loop.done
                    /\ ComposeResponse(single.errs, 1) = ComposeResponse(loop.errs, 1)
            /\ Dispatched(r) =>
                 LET loop == LoopBranch(r, C17_Start, calls[r][1].err)
                 IN /\ calls[r] = loop.calls
                    /\ respondWithErrors[r] = loop.errs
                    /\ responses[r] = <<ComposeResponse(loop.errs, 1)>>

\* A request of one entry rejected after its failed call, beside a request of one
\* entry accepted after its successful call.
C17_Witness ==
    \E r1, r2 \in Reqs :
        /\ TriggerCount(r1) = 1 /\ pc[r1] = "Failure" /\ calls[r1][1].err # Nil
        /\ Len(responses[r1][1].errors) = 1
        /\ TriggerCount(r2) = 1 /\ pc[r2] = "Success" /\ calls[r2][1].err = Nil

\* ---------------------------------------------------------------------- C18
\* A step of request r that makes a downstream call submits one more entry (no
\* entry is submitted again), no request is received twice, and a terminal state
\* is not left.
C18_NoRetry(r) ==
    /\ calls'[r] # calls[r] =>
         /\ idx'[r] = idx[r] + 1
         /\ Len(calls'[r]) = idx'[r]
         /\ \A i \in 1..Len(calls[r]) :
              calls[r][i].params # calls'[r][Len(calls'[r])].params
    /\ pc'[r] = "Idle" => pc[r] = "Idle"
    /\ Terminal(r) => pc'[r] = pc[r]

\* C18: with Transform, the URL resolution and every downstream call returning,
\* every received request reaches a terminal state (Acknowledged, Rejected,
\* Success or Failure) and stays there, so that in the end every request is
\* either not received or answered; it makes at most N downstream calls, N
\* the number of its TriggerAPIParams, and none of them twice.
C18_Terminates ==
    /\ <>[](\A r \in Reqs : pc[r] = "Idle" \/ Terminal(r))
    /\ [](\A r \in Reqs : Len(calls[r]) <= TriggerCount(r))
    /\ [][\A r \in Reqs : C18_NoRetry(r)]_allvars

\* A request that reached Failure after exactly its three downstream calls, all
\* of them failed.
C18_Witness ==
    \E r \in Reqs :
        /\ pc[r] = "Failure"
        /\ TriggerCount(r) = 3
        /\ Len(calls[r]) = 3
        /\ Len(FailedCalls(r)) = 3

====
